---- MODULE Spec2Model ----
(***************************************************************************)
(* Model of tidb-server/main.go: the process bootstrap (flag resolution,   *)
(* lease parsing, TLS policy, store, session bootstrap, server), the       *)
(* signal-handling goroutine, the Prometheus push goroutine and the final  *)
(* teardown.  Durations are counted in milliseconds.                       *)
(***************************************************************************)
EXTENDS Integers, Sequences, FiniteSets, TLC

\* ------------------------------------------------------------------ bounds
\* Termination signals the environment delivers in one execution.
MaxSignals == 2
\* Push attempts of the metrics goroutine that are followed.
MaxPush == 2
\* Longest lease string enumerated for parseLease as a pure function.
MaxLen == 4

VARIABLES
    flags,          \* the parsed command line (lines 50-75)
    pc,             \* position of the main goroutine in main()
    exited,         \* the process has terminated
    exitCode,       \* its exit status (meaningful once exited)
    fatalAt,        \* the step that terminated the process fatally, "" if none
    trace,          \* the bootstrap steps entered so far, in order
    logs,           \* the log lines emitted so far (by tag)
    schemaLease,    \* <<>> or <<d>>: the value handed to tidb.SetSchemaLease
    statsLeaseDur,  \* <<>> or <<d>>: the value handed to tidb.SetStatsLease
    cfg,            \* <<>> or <<c>>: the server.Config
    tlsConfig,      \* <<>> (nil) or <<t>>: the *tls.Config
    certLoad,       \* outcome of tls.LoadX509KeyPair: "none", "ok", "failed"
    caLoad,         \* outcome of the CA bundle: "none", "readFailed", "parseFailed", "ok"
    store,          \* "none" or "open"
    binlogClient,   \* the pump client has been set
    domain,         \* "none", "open", "closed"
    domainCloses,   \* calls of domain.Close
    svr,            \* server state: "none", "constructed", "running", "closing", "stopped"
    closeCalls,     \* calls of svr.Close
    runCalls,       \* calls of svr.Run
    runResult,      \* "none", "nil" or "err": what svr.Run returned
    sc,             \* the signal channel (capacity 1), <<>> before make
    subscribed,     \* signal.Notify has been called
    sigCount,       \* signals delivered after subscription
    cpc,            \* position of the signal goroutine: "none", "recv", "close", "done"
    sig,            \* <<>> or <<s>>: the signal that goroutine received
    ppc,            \* position of the push goroutine: "none", "push", "sleep"
    pushInterval,   \* the interval handed to prometheusPushClient
    pushCalls,      \* push attempts issued
    lastPush,       \* outcome of the latest attempt: "none", "ok", "failed"
    lastSleep,      \* <<>> or <<d>>: the time the latest time.Sleep waited
    leaseArg,       \* argument of an isolated parseLease call
    leaseRet        \* <<>> or <<r>>: its outcome

procVars == <<pc, exited, exitCode, fatalAt, trace, logs>>
bootVars == <<schemaLease, statsLeaseDur, cfg, tlsConfig, certLoad, caLoad, store,
              binlogClient>>
domVars  == <<domain, domainCloses>>
svrVars  == <<svr, closeCalls, runCalls, runResult>>
sigVars  == <<sc, subscribed, sigCount, cpc, sig>>
pushVars == <<ppc, pushInterval, pushCalls, lastPush, lastSleep>>
leaseVars == <<leaseArg, leaseRet>>
vars == <<flags, procVars, bootVars, domVars, svrVars, sigVars, pushVars, leaseVars>>

\* ------------------------------------------------------- time.ParseDuration
Millisecond == 1
Second == 1000 * Millisecond
Minute == 60 * Second
Hour == 60 * Minute

DigitChars == {"0", "1", "2", "3", "4", "5", "6", "7", "8", "9"}

DigitVal(c) ==
    CASE c = "0" -> 0 [] c = "1" -> 1 [] c = "2" -> 2 [] c = "3" -> 3
      [] c = "4" -> 4 [] c = "5" -> 5 [] c = "6" -> 6 [] c = "7" -> 7
      [] c = "8" -> 8 [] c = "9" -> 9

\* unitMap of package time, for the units of a millisecond and above.
UnitNames == {<<"m", "s">>, <<"s">>, <<"m">>, <<"h">>}

UnitMap(u) ==
    CASE u = <<"m", "s">> -> Millisecond
      [] u = <<"s">> -> Second
      [] u = <<"m">> -> Minute
      [] u = <<"h">> -> Hour

IsNumChar(c) == c \in DigitChars \/ c = "."

Drop(s, n) == SubSeq(s, n + 1, Len(s))

\* Length of the longest prefix of s made of digits (leadingInt).
RECURSIVE DigitPrefixLen(_)
DigitPrefixLen(s) ==
    IF s # <<>> /\ Head(s) \in DigitChars THEN 1 + DigitPrefixLen(Tail(s)) ELSE 0

\* Value of a sequence of digits (leadingInt).
RECURSIVE DigitsValue(_, _)
DigitsValue(s, acc) ==
    IF s = <<>> THEN acc ELSE DigitsValue(Tail(s), acc * 10 + DigitVal(Head(s)))

\* Length of the longest prefix of s holding no digit and no '.' (the unit).
RECURSIVE UnitPrefixLen(_)
UnitPrefixLen(s) ==
    IF s # <<>> /\ ~IsNumChar(Head(s)) THEN 1 + UnitPrefixLen(Tail(s)) ELSE 0

ParseError == [ok |-> FALSE, dur |-> 0]

\* The loop of ParseDuration over ([0-9]+[a-z]+)+, d the sum so far.
RECURSIVE ParseGroups(_, _)
ParseGroups(s, d) ==
    IF s = <<>> THEN [ok |-> TRUE, dur |-> d]
    ELSE IF ~IsNumChar(Head(s)) THEN ParseError
    ELSE LET n == DigitPrefixLen(s)
             rest == Drop(s, n)
             i == UnitPrefixLen(rest)
             u == SubSeq(rest, 1, i)
         IN  IF n = 0 THEN ParseError                \* a fraction: not enumerated
             ELSE IF i = 0 THEN ParseError           \* missing unit
             ELSE IF u \notin UnitNames THEN ParseError  \* unknown unit
             ELSE ParseGroups(Drop(rest, i), d + DigitsValue(SubSeq(s, 1, n), 0) * UnitMap(u))

ParseDuration(s) ==
    LET signed == s # <<>> /\ Head(s) \in {"-", "+"}
        neg == s # <<>> /\ Head(s) = "-"
        body == IF signed THEN Tail(s) ELSE s
    IN  IF body = <<"0">> THEN [ok |-> TRUE, dur |-> 0]
        ELSE IF body = <<>> THEN ParseError
        ELSE LET r == ParseGroups(body, 0)
             IN  IF ~r.ok THEN ParseError
                 ELSE [ok |-> TRUE, dur |-> IF neg THEN 0 - r.dur ELSE r.dur]

\* ------------------------------------------------------------- parseLease
parseLease_NoNegCheck(lease) ==
    LET first == ParseDuration(lease)
        r == IF ~first.ok THEN ParseDuration(lease \o <<"s">>) ELSE first
    IN  IF ~r.ok THEN [fatal |-> TRUE, dur |-> 0] ELSE [fatal |-> FALSE, dur |-> r.dur]

parseLease_NoRetry(lease) ==
    LET r == ParseDuration(lease)
    IN  IF ~r.ok \/ r.dur < 0 THEN [fatal |-> TRUE, dur |-> 0]
        ELSE [fatal |-> FALSE, dur |-> r.dur]

\* parseLease: fatal means log.Fatalf was reached and no value is returned.
parseLease(lease) ==
    LET first == ParseDuration(lease)
        r == IF ~first.ok THEN ParseDuration(lease \o <<"s">>) ELSE first
    IN  IF ~r.ok \/ r.dur < 0 THEN [fatal |-> TRUE, dur |-> 0]
        ELSE [fatal |-> FALSE, dur |-> r.dur]

\* ------------------------------------------------------------------ flags
\* The flags at their declared defaults (lines 50 to 75).
DefaultFlags ==
    [ version |-> FALSE, skipGrantTable |-> FALSE,
      ddlLease |-> <<"1", "0", "s">>, statsLease |-> <<"3", "s">>,
      sslEnabled |-> FALSE, sslCAPath |-> "", sslCertPath |-> "", sslKeyPath |-> "",
      logFile |-> "", binlogSocket |-> "", metricsAddr |-> "", metricsInterval |-> 15 ]

\* Lease strings given on the command line: the two defaults, a bare integer,
\* negative values without and with a unit, an unknown unit, the empty string.
LeaseFlagValues ==
    { <<"1", "0", "s">>, <<"3", "s">>, <<"5">>, <<"-", "5">>, <<"-", "5", "s">>,
      <<"1", "x">>, <<>> }

\* A path flag is empty or names a file.
PathValues == {"", "file"}

\* metrics-interval in seconds: disabled, the default, and a negative value.
IntervalValues == {0, 15, -1}

\* The command lines enumerated.  The flags are read by independent stages of
\* main; each family varies every flag one stage reads, together with the
\* version flag, and leaves the others at their defaults.
FlagsGate ==
    { [DefaultFlags EXCEPT !.version = v, !.skipGrantTable = g,
                           !.ddlLease = d, !.statsLease = t] :
        v \in BOOLEAN, g \in BOOLEAN, d \in LeaseFlagValues, t \in LeaseFlagValues }

FlagsTLS ==
    { [DefaultFlags EXCEPT !.version = v, !.sslEnabled = e, !.sslCAPath = ca,
                           !.sslCertPath = c, !.sslKeyPath = k] :
        v \in BOOLEAN, e \in BOOLEAN, ca \in PathValues, c \in PathValues,
        k \in PathValues }

FlagsServe ==
    { [DefaultFlags EXCEPT !.version = v, !.logFile = l, !.binlogSocket = b,
                           !.metricsAddr = a, !.metricsInterval = i] :
        v \in BOOLEAN, l \in PathValues, b \in PathValues, a \in PathValues,
        i \in IntervalValues }

Flags == FlagsGate \cup FlagsTLS \cup FlagsServe

\* The termination signals main subscribes to.
Signals == {"SIGHUP", "SIGINT", "SIGTERM", "SIGQUIT"}

\* Exit statuses of log.Fatal: non-zero, the value is the logging library's.
FatalCodes == {1, -1}

InitRest ==
    /\ exited = FALSE
    /\ exitCode = 0
    /\ fatalAt = ""
    /\ trace = <<>>
    /\ logs = {}
    /\ schemaLease = <<>>
    /\ statsLeaseDur = <<>>
    /\ cfg = <<>>
    /\ tlsConfig = <<>>
    /\ certLoad = "none"
    /\ caLoad = "none"
    /\ store = "none"
    /\ binlogClient = FALSE
    /\ domain = "none"
    /\ domainCloses = 0
    /\ svr = "none"
    /\ closeCalls = 0
    /\ runCalls = 0
    /\ runResult = "none"
    /\ sc = <<>>
    /\ subscribed = FALSE
    /\ sigCount = 0
    /\ cpc = "none"
    /\ sig = <<>>
    /\ ppc = "none"
    /\ pushInterval = 0
    /\ pushCalls = 0
    /\ lastPush = "none"
    /\ lastSleep = <<>>

\* The process at the first statement of main, for one of the command lines.
Init ==
    /\ flags \in Flags
    /\ pc = "flagParse"
    /\ leaseArg = <<>>
    /\ leaseRet = <<>>
    /\ InitRest

\* ---------------------------------------------------------- process exit
\* os.Exit(code): the process and every goroutine of it stop where they are.
Exit(code) ==
    /\ exited' = TRUE
    /\ exitCode' = code
    /\ pc' = pc

\* log.Fatal at bootstrap step `step`: log the error, exit non-zero.
Fatal_ExitZero(step) ==
    /\ Exit(0)
    /\ fatalAt' = step
    /\ logs' = logs \cup {<<"fatal", step>>}

Fatal(step) ==
    /\ \E code \in FatalCodes : Exit(code)
    /\ fatalAt' = step
    /\ logs' = logs \cup {<<"fatal", step>>}

\* The step completed: main moves on to `next`.
Goto(next) ==
    /\ pc' = next
    /\ UNCHANGED <<exited, exitCode, fatalAt>>

Enter(step) == trace' = Append(trace, step)

Log(lines) == logs' = logs \cup lines

\* ------------------------------------------------- main: lines 93 to 108
\* A main that prints the version and goes on with the startup.
FlagParse_NoExit ==
    /\ ~exited /\ pc = "flagParse"
    /\ Goto("privCheck")
    /\ IF flags.version THEN Log({<<"print", "version">>}) ELSE UNCHANGED logs
    /\ UNCHANGED <<flags, trace, bootVars, domVars, svrVars, sigVars, pushVars, leaseVars>>

\* flag.Parse and the version flag.
FlagParse ==
    /\ ~exited /\ pc = "flagParse"
    /\ IF flags.version
       THEN /\ Exit(0)
            /\ Log({<<"print", "version">>})
            /\ UNCHANGED fatalAt
       ELSE /\ Goto("privCheck")
            /\ UNCHANGED logs
    /\ UNCHANGED <<flags, trace, bootVars, domVars, svrVars, sigVars, pushVars, leaseVars>>

\* skip-grant-table needs root: hasRootPrivilege() reads the effective uid.
PrivCheck ==
    /\ ~exited /\ pc = "privCheck"
    /\ \E root \in BOOLEAN :
        IF flags.skipGrantTable /\ ~root
        THEN /\ Exit(-1)
             /\ fatalAt' = "privCheck"
             /\ Log({<<"error", "privCheck">>})
        ELSE /\ Goto("parseDdlLease")
             /\ UNCHANGED logs
    /\ Enter("privCheck")
    /\ UNCHANGED <<flags, bootVars, domVars, svrVars, sigVars, pushVars, leaseVars>>

\* ddlLeaseDuration := parseLease(*ddlLease); tidb.SetSchemaLease(...)
ParseDdlLease ==
    /\ ~exited /\ pc = "parseDdlLease"
    /\ Enter("parseDdlLease")
    /\ LET r == parseLease(flags.ddlLease)
       IN  IF r.fatal
           THEN /\ Fatal("parseDdlLease")
                /\ UNCHANGED schemaLease
           ELSE /\ Goto("parseStatsLease")
                /\ schemaLease' = <<r.dur>>
                /\ UNCHANGED logs
    /\ UNCHANGED <<flags, statsLeaseDur, cfg, tlsConfig, certLoad, caLoad, store,
                   binlogClient, domVars, svrVars, sigVars, pushVars, leaseVars>>

\* statsLeaseDuration := parseLease(*statsLease); tidb.SetStatsLease(...)
ParseStatsLease ==
    /\ ~exited /\ pc = "parseStatsLease"
    /\ Enter("parseStatsLease")
    /\ LET r == parseLease(flags.statsLease)
       IN  IF r.fatal
           THEN /\ Fatal("parseStatsLease")
                /\ UNCHANGED statsLeaseDur
           ELSE /\ Goto("buildConfig")
                /\ statsLeaseDur' = <<r.dur>>
                /\ UNCHANGED logs
    /\ UNCHANGED <<flags, schemaLease, cfg, tlsConfig, certLoad, caLoad, store,
                   binlogClient, domVars, svrVars, sigVars, pushVars, leaseVars>>

\* ------------------------------------------------ main: lines 110 to 144
ConfigSSLEnabled_CertKeyOnly(f) ==
    f.sslEnabled \/ f.sslCertPath # "" \/ f.sslKeyPath # ""

\* cfg.SSLEnabled after lines 118 to 126.
ConfigSSLEnabled(f) ==
    IF f.sslCAPath # "" \/ f.sslCertPath # "" \/ f.sslKeyPath # ""
    THEN TRUE
    ELSE f.sslEnabled

BuildConfig ==
    /\ ~exited /\ pc = "buildConfig"
    /\ cfg' = << [ SSLEnabled |-> ConfigSSLEnabled(flags),
                   SSLCAPath |-> flags.sslCAPath,
                   SSLCertPath |-> flags.sslCertPath,
                   SSLKeyPath |-> flags.sslKeyPath ] >>
    /\ Goto("setLog")
    /\ Enter("buildConfig")
    /\ UNCHANGED <<flags, logs, schemaLease, statsLeaseDur, tlsConfig, certLoad, caLoad,
                   store, binlogClient, domVars, svrVars, sigVars, pushVars, leaseVars>>

\* log.SetOutputByName(*logFile) when a log file is named.
SetLog ==
    /\ ~exited /\ pc = "setLog"
    /\ Enter("setLog")
    /\ IF flags.logFile # ""
       THEN \E ok \in BOOLEAN :
               IF ok THEN Goto("loadTLS") /\ UNCHANGED logs
                     ELSE Fatal("setLog")
       ELSE Goto("loadTLS") /\ UNCHANGED logs
    /\ UNCHANGED <<flags, bootVars, domVars, svrVars, sigVars, pushVars, leaseVars>>

\* ------------------------------------------------ main: lines 146 to 182
\* Outcomes of tls.LoadX509KeyPair: a missing path never loads.
CertOutcomes(f) ==
    IF f.sslCertPath # "" /\ f.sslKeyPath # "" THEN {"ok", "failed"} ELSE {"failed"}

\* Outcomes of ioutil.ReadFile and AppendCertsFromPEM on the CA bundle.
CAOutcomes(f) ==
    IF f.sslCAPath # "" THEN {"readFailed", "parseFailed", "ok"} ELSE {"none"}

\* The *tls.Config of lines 156 to 174 for a CA outcome.  ClientCAs is "nil"
\* (certPool never assigned), "empty" (NewCertPool with nothing appended) or
\* "pool".
TLSPolicy(ca) ==
    [ ClientCAs |-> CASE ca = "ok" -> "pool" [] ca = "parseFailed" -> "empty"
                      [] OTHER -> "nil",
      ClientAuth |-> IF ca = "ok" THEN "RequireAndVerifyClientCert"
                     ELSE "NoClientCert" ]

\* Warnings of lines 152 and 161.
TLSWarnings(cert, ca) ==
    IF cert = "failed" THEN {<<"warn", "certLoad">>}
    ELSE IF ca = "readFailed" THEN {<<"warn", "caRead">>}
    ELSE {}

\* cfg.SSLEnabled and tlsConfig after a failed key pair load (lines 151-153).
CertFailed_KeepEnabled(c) == [enabled |-> c.SSLEnabled, tls |-> <<>>]

\* A failed load that clears the flag and still builds a policy.
CertFailed_KeepPolicy(c) == [enabled |-> FALSE, tls |-> <<TLSPolicy("none")>>]

CertFailed(c) == [enabled |-> FALSE, tls |-> <<>>]

LoadTLS ==
    /\ ~exited /\ pc = "loadTLS"
    /\ Enter("loadTLS")
    /\ Goto("createStore")
    /\ IF cfg[1].SSLEnabled
       THEN \E cert \in CertOutcomes(flags), ca \in CAOutcomes(flags) :
              /\ certLoad' = cert
              /\ IF cert = "failed"
                 THEN /\ cfg' = <<[cfg[1] EXCEPT !.SSLEnabled = CertFailed(cfg[1]).enabled]>>
                      /\ tlsConfig' = CertFailed(cfg[1]).tls
                      /\ caLoad' = "none"
                      /\ Log(TLSWarnings(cert, "none")
                             \cup {IF CertFailed(cfg[1]).enabled
                                   THEN <<"info", "secure">>
                                   ELSE <<"warn", "notSecure">>})
                 ELSE /\ caLoad' = ca
                      /\ tlsConfig' = <<TLSPolicy(ca)>>
                      /\ Log(TLSWarnings(cert, ca) \cup {<<"info", "secure">>})
                      /\ UNCHANGED cfg
       ELSE /\ Log({<<"warn", "notSecure">>})
            /\ UNCHANGED <<cfg, tlsConfig, certLoad, caLoad>>
    /\ UNCHANGED <<flags, schemaLease, statsLeaseDur, store, binlogClient, domVars,
                   svrVars, sigVars, pushVars, leaseVars>>

\* ------------------------------------------------ main: lines 184 to 207
\* A main that goes from the store straight to session bootstrap.
CreateStore_SkipBinlog ==
    /\ ~exited /\ pc = "createStore"
    /\ Enter("createStore")
    /\ \E ok \in BOOLEAN :
         IF ok THEN /\ store' = "open"
                    /\ Goto("bootstrapSession")
                    /\ UNCHANGED logs
               ELSE /\ Fatal("createStore")
                    /\ UNCHANGED store
    /\ UNCHANGED <<flags, schemaLease, statsLeaseDur, cfg, tlsConfig, certLoad, caLoad,
                   binlogClient, domVars, svrVars, sigVars, pushVars, leaseVars>>

\* createStore: tidb.NewStore(fullPath), fatal on error.
CreateStore ==
    /\ ~exited /\ pc = "createStore"
    /\ Enter("createStore")
    /\ \E ok \in BOOLEAN :
         IF ok THEN /\ store' = "open"
                    /\ Goto(IF flags.binlogSocket # "" THEN "createBinlogClient"
                            ELSE "bootstrapSession")
                    /\ UNCHANGED logs
               ELSE /\ Fatal("createStore")
                    /\ UNCHANGED store
    /\ UNCHANGED <<flags, schemaLease, statsLeaseDur, cfg, tlsConfig, certLoad, caLoad,
                   binlogClient, domVars, svrVars, sigVars, pushVars, leaseVars>>

\* createBinlogClient: grpc.Dial, fatal on error, else SetPumpClient.
CreateBinlogClient ==
    /\ ~exited /\ pc = "createBinlogClient"
    /\ Enter("createBinlogClient")
    /\ \E ok \in BOOLEAN :
         IF ok THEN /\ binlogClient' = TRUE
                    /\ Goto("bootstrapSession")
                    /\ Log({<<"info", "binlogClient">>})
               ELSE /\ Fatal("createBinlogClient")
                    /\ UNCHANGED binlogClient
    /\ UNCHANGED <<flags, schemaLease, statsLeaseDur, cfg, tlsConfig, certLoad, caLoad,
                   store, domVars, svrVars, sigVars, pushVars, leaseVars>>

\* domain, err := tidb.BootstrapSession(store)
BootstrapSession ==
    /\ ~exited /\ pc = "bootstrapSession"
    /\ Enter("bootstrapSession")
    /\ \E ok \in BOOLEAN :
         IF ok THEN /\ domain' = "open"
                    /\ Goto("newServer")
                    /\ UNCHANGED logs
               ELSE /\ Fatal("bootstrapSession")
                    /\ UNCHANGED domain
    /\ UNCHANGED <<flags, bootVars, domainCloses, svrVars, sigVars, pushVars, leaseVars>>

\* svr, err = server.NewServer(cfg, tlsConfig, driver)
NewServer ==
    /\ ~exited /\ pc = "newServer"
    /\ Enter("newServer")
    /\ \E ok \in BOOLEAN :
         IF ok THEN /\ svr' = "constructed"
                    /\ Goto("signalNotify")
                    /\ UNCHANGED logs
               ELSE /\ Fatal("newServer")
                    /\ UNCHANGED svr
    /\ UNCHANGED <<flags, bootVars, domVars, closeCalls, runCalls, runResult, sigVars,
                   pushVars, leaseVars>>

\* ------------------------------------------------ main: lines 209 to 227
\* Capacity of the signal channel: make(chan os.Signal, 1).
ChanCap == 1

\* sc := make(chan os.Signal, 1); signal.Notify(sc, ...)
SignalNotify ==
    /\ ~exited /\ pc = "signalNotify"
    /\ Enter("signalNotify")
    /\ Goto("spawnCoordinator")
    /\ subscribed' = TRUE
    /\ UNCHANGED <<flags, logs, bootVars, domVars, svrVars, sc, sigCount, cpc, sig,
                   pushVars, leaseVars>>

\* go func() { sig := <-sc; ...; svr.Close() }()
SpawnCoordinator ==
    /\ ~exited /\ pc = "spawnCoordinator"
    /\ Goto("pushMetric")
    /\ cpc' = "recv"
    /\ UNCHANGED <<flags, trace, logs, bootVars, domVars, svrVars, sc, subscribed,
                   sigCount, sig, pushVars, leaseVars>>

\* Whether pushMetric starts the push goroutine (line 260).
PushEnabled_AddrOnly(addr, interval) == addr # ""

PushEnabled(addr, interval) == ~(interval = 0 \/ addr = "")

\* pushMetric(*metricsAddr, time.Duration(*metricsInterval)*time.Second).
\* The clock monitor started at line 223 shares no state with what follows
\* and is left out.
PushMetric ==
    /\ ~exited /\ pc = "pushMetric"
    /\ Goto("run")
    /\ LET interval == flags.metricsInterval * Second
       IN  IF PushEnabled(flags.metricsAddr, interval)
           THEN /\ ppc' = "push"
                /\ pushInterval' = interval
                /\ Log({<<"info", "startPush">>})
           ELSE /\ Log({<<"info", "disablePush">>})
                /\ UNCHANGED <<ppc, pushInterval>>
    /\ UNCHANGED <<flags, trace, bootVars, domVars, svrVars, sigVars, pushCalls, lastPush,
                   lastSleep, leaseVars>>

\* ---------------------------------------------------- the server contract
\* Server.Close: it makes a blocked Run return; before Run has started or
\* after it has returned it does nothing.
SvrClose(state) == IF state = "running" THEN "closing" ELSE state

\* Server.Run is entered: the server serves until it is closed or fails.
SvrRun(state) == IF state = "constructed" THEN "running" ELSE state

\* ------------------------------------------------ main: lines 229 to 231
\* A main that does not wait for Run to return.
RunStart_NoWait ==
    /\ ~exited /\ pc = "run"
    /\ Enter("run")
    /\ Goto("domainClose")
    /\ svr' = SvrRun(svr)
    /\ runCalls' = runCalls + 1
    /\ UNCHANGED <<flags, logs, bootVars, domVars, closeCalls, runResult, sigVars,
                   pushVars, leaseVars>>

\* svr.Run() is called and blocks the main goroutine.
RunStart ==
    /\ ~exited /\ pc = "run"
    /\ Enter("run")
    /\ Goto("inRun")
    /\ svr' = SvrRun(svr)
    /\ runCalls' = runCalls + 1
    /\ UNCHANGED <<flags, logs, bootVars, domVars, closeCalls, runResult, sigVars,
                   pushVars, leaseVars>>

\* Run returns because the server was closed; log.Error logs what it returned.
RunReturn ==
    /\ ~exited /\ pc = "inRun" /\ svr = "closing"
    /\ svr' = "stopped"
    /\ \E r \in {"nil", "err"} :
         /\ runResult' = r
         /\ Log({<<"error", r>>})
    /\ Goto("domainClose")
    /\ UNCHANGED <<flags, trace, bootVars, domVars, closeCalls, runCalls, sigVars,
                   pushVars, leaseVars>>

\* Run returns on a terminal error of its own.
RunFail ==
    /\ ~exited /\ pc = "inRun" /\ svr = "running"
    /\ svr' = "stopped"
    /\ runResult' = "err"
    /\ Log({<<"error", "err">>})
    /\ Goto("domainClose")
    /\ UNCHANGED <<flags, trace, bootVars, domVars, closeCalls, runCalls, sigVars,
                   pushVars, leaseVars>>

\* A teardown that leaves the domain open.
DomainClose_Skip ==
    /\ ~exited /\ pc = "domainClose"
    /\ Goto("exit")
    /\ UNCHANGED <<flags, trace, logs, bootVars, domVars, svrVars, sigVars, pushVars,
                   leaseVars>>

\* domain.Close()
DomainClose ==
    /\ ~exited /\ pc = "domainClose"
    /\ domain' = "closed"
    /\ domainCloses' = domainCloses + 1
    /\ Goto("exit")
    /\ UNCHANGED <<flags, trace, logs, bootVars, svrVars, sigVars, pushVars, leaseVars>>

\* An exit status taken from what Run returned.
ExitZero_FromRunResult ==
    /\ ~exited /\ pc = "exit"
    /\ Exit(IF runResult = "err" THEN 1 ELSE 0)
    /\ UNCHANGED <<flags, fatalAt, trace, logs, bootVars, domVars, svrVars, sigVars,
                   pushVars, leaseVars>>

\* os.Exit(0)
ExitZero ==
    /\ ~exited /\ pc = "exit"
    /\ Exit(0)
    /\ UNCHANGED <<flags, fatalAt, trace, logs, bootVars, domVars, svrVars, sigVars,
                   pushVars, leaseVars>>

\* ------------------------------------------- signals and their goroutine
\* The runtime hands a subscribed signal to sc without blocking: it is
\* dropped when the channel is full.  Signals are followed from the
\* subscription on; before it their default disposition applies.
DeliverSignal ==
    /\ ~exited /\ subscribed /\ sigCount < MaxSignals
    /\ \E s \in Signals :
         sc' = IF Len(sc) < ChanCap THEN Append(sc, s) ELSE sc
    /\ sigCount' = sigCount + 1
    /\ UNCHANGED <<flags, procVars, bootVars, domVars, svrVars, subscribed, cpc, sig,
                   pushVars, leaseVars>>

\* sig := <-sc; log.Infof("Got signal [%d] to exit.", sig)
CoordRecv ==
    /\ ~exited /\ cpc = "recv" /\ sc # <<>>
    /\ sig' = <<Head(sc)>>
    /\ sc' = Tail(sc)
    /\ cpc' = "close"
    /\ Log({<<"info", "gotSignal">>})
    /\ UNCHANGED <<flags, pc, exited, exitCode, fatalAt, trace, bootVars, domVars,
                   svrVars, subscribed, sigCount, pushVars, leaseVars>>

\* A goroutine that closes the server without waiting for a signal.
CoordClose_Loop ==
    /\ ~exited /\ cpc = "close"
    /\ svr' = SvrClose(svr)
    /\ closeCalls' = closeCalls + 1
    /\ cpc' = IF sc # <<>> THEN "close" ELSE "done"
    /\ sc' = IF sc # <<>> THEN Tail(sc) ELSE sc
    /\ UNCHANGED <<flags, procVars, bootVars, domVars, runCalls, runResult, subscribed,
                   sigCount, sig, pushVars, leaseVars>>

\* svr.Close(), then the goroutine ends.
CoordClose ==
    /\ ~exited /\ cpc = "close"
    /\ svr' = SvrClose(svr)
    /\ closeCalls' = closeCalls + 1
    /\ cpc' = "done"
    /\ UNCHANGED <<flags, procVars, bootVars, domVars, runCalls, runResult, sc, subscribed, sigCount, sig,
                   pushVars, leaseVars>>

\* -------------------------------------------------- prometheusPushClient
\* A loop that returns on the first failed push.
PusherPush_StopOnError ==
    /\ ~exited /\ ppc = "push" /\ pushCalls < MaxPush
    /\ pushCalls' = pushCalls + 1
    /\ \E ok \in BOOLEAN :
         IF ok THEN lastPush' = "ok" /\ ppc' = "sleep" /\ UNCHANGED logs
               ELSE lastPush' = "failed" /\ ppc' = "none" /\ Log({<<"error", "push">>})
    /\ UNCHANGED <<flags, pc, exited, exitCode, fatalAt, trace, bootVars, domVars,
                   svrVars, sigVars, pushInterval, lastSleep, leaseVars>>

\* push.AddFromGatherer(...); a failure is logged.
PusherPush ==
    /\ ~exited /\ ppc = "push" /\ pushCalls < MaxPush
    /\ pushCalls' = pushCalls + 1
    /\ \E ok \in BOOLEAN :
         IF ok THEN lastPush' = "ok" /\ UNCHANGED logs
               ELSE lastPush' = "failed" /\ Log({<<"error", "push">>})
    /\ ppc' = "sleep"
    /\ UNCHANGED <<flags, pc, exited, exitCode, fatalAt, trace, bootVars, domVars,
                   svrVars, sigVars, pushInterval, lastSleep, leaseVars>>

\* The time time.Sleep(d) waits: a zero or negative d returns at once.
SleepTime(d) == IF d <= 0 THEN 0 ELSE d

\* time.Sleep(interval)
PusherSleep ==
    /\ ~exited /\ ppc = "sleep"
    /\ ppc' = "push"
    /\ lastSleep' = <<SleepTime(pushInterval)>>
    /\ UNCHANGED <<flags, procVars, bootVars, domVars, svrVars, sigVars, pushInterval,
                   pushCalls, lastPush, leaseVars>>

\* ------------------------------------------------------- specifications
MainStep ==
    \/ FlagParse \/ PrivCheck \/ ParseDdlLease \/ ParseStatsLease \/ BuildConfig
    \/ SetLog \/ LoadTLS \/ CreateStore \/ CreateBinlogClient \/ BootstrapSession
    \/ NewServer \/ SignalNotify \/ SpawnCoordinator \/ PushMetric \/ RunStart
    \/ DomainClose \/ ExitZero

CoordStep == CoordRecv \/ CoordClose

PusherStep == PusherPush \/ PusherSleep

Next ==
    \/ FlagParse \/ PrivCheck \/ ParseDdlLease \/ ParseStatsLease \/ BuildConfig
    \/ SetLog \/ LoadTLS \/ CreateStore \/ CreateBinlogClient \/ BootstrapSession
    \/ NewServer \/ SignalNotify \/ SpawnCoordinator \/ PushMetric \/ RunStart
    \/ RunReturn \/ RunFail \/ DomainClose \/ ExitZero
    \/ DeliverSignal \/ CoordRecv \/ CoordClose
    \/ PusherPush \/ PusherSleep

Spec == Init /\ [][Next]_vars

\* The Go scheduler runs every runnable goroutine: main and the signal
\* goroutine take their next step when they can.  A closed server that is
\* blocked in Run returns.  Signals, a failure of Run of its own and the
\* outcome of a push are the environment's and are not forced.
FairSpec ==
    /\ Spec
    /\ WF_vars(MainStep)
    /\ WF_vars(CoordStep)
    /\ WF_vars(RunReturn)

\* FairSpec with the push goroutine scheduled as well.
FairPushSpec ==
    /\ FairSpec
    /\ WF_vars(PusherStep)

\* ------------------------------------------- parseLease called in isolation
\* Characters of the lease strings enumerated.
LeaseAlphabet == {"-", "+", "0", "1", "s", "m"}

LeaseStrings == UNION { [1..n -> LeaseAlphabet] : n \in 0..MaxLen }

InitLease ==
    /\ flags = DefaultFlags
    /\ pc = "isolated"
    /\ leaseArg \in LeaseStrings
    /\ leaseRet = <<>>
    /\ InitRest

\* One call parseLease(leaseArg); leaseRet records whether it returned.
CallParseLease ==
    /\ pc = "isolated" /\ leaseRet = <<>>
    /\ leaseRet' = <<parseLease(leaseArg)>>
    /\ UNCHANGED <<flags, procVars, bootVars, domVars, svrVars, sigVars, pushVars,
                   leaseArg>>

NextLease == CallParseLease

SpecLease == InitLease /\ [][NextLease]_vars

\* ------------------------------------------------------------ properties
InTrace(step) == \E i \in 1..Len(trace) : trace[i] = step

\* The step entered right after `step`, "" if none yet.
StepAfter(step) ==
    IF \E i \in 1..(Len(trace) - 1) : trace[i] = step
    THEN trace[(CHOOSE i \in 1..(Len(trace) - 1) : trace[i] = step) + 1]
    ELSE ""

\* C1: once svr.Run has been called, domain.Close is not invoked before Run
\* has returned, and os.Exit(0) is not reached before domain.Close has
\* returned, whatever the signal goroutine does meanwhile.
C1_TeardownOrder ==
    /\ domainCloses > 0 => runCalls > 0 /\ runResult # "none" /\ svr = "stopped"
    /\ pc \in {"domainClose", "exit"} => runResult # "none"
    /\ exited /\ runCalls > 0 => exitCode = 0 /\ domain = "closed" /\ domainCloses > 0

C1_Witness ==
    exited /\ exitCode = 0 /\ runCalls = 1 /\ closeCalls = 1 /\ domain = "closed"

\* C2: svr.Close is never invoked more than once, however many signals
\* arrive; the signal goroutine invokes it only after receiving a signal, and
\* a signal delivered after subscription leads to exactly one call of it
\* unless the process exits first.
C2_CloseOnce ==
    /\ [](/\ closeCalls <= 1
          /\ (cpc = "done" => closeCalls = 1)
          /\ (closeCalls = 1 => sigCount >= 1 /\ sig # <<>>))
    /\ (sigCount >= 1) ~> (closeCalls = 1 \/ exited)

C2_Witness == closeCalls = 1 /\ sigCount = MaxSignals /\ cpc = "done" /\ ~exited

\* C3 (as claimed): a termination signal delivered at any moment after
\* subscription eventually leads to svr.Run returning, domain.Close being
\* called and the process exiting with code 0.
C3_SignalLeadsToExit ==
    (sigCount >= 1) ~> (exited /\ exitCode = 0 /\ runResult # "none" /\ domain = "closed")

\* C4 (as claimed): every SessionDomain created is closed exactly once before
\* the process exits, on every exit path that follows its creation, and only
\* after svr.Run has returned.
C4_ClosedOnEveryExit ==
    /\ exited /\ domain # "none" => domain = "closed" /\ domainCloses = 1
    /\ domainCloses > 0 => runResult # "none"

\* C4 (amended): the SessionDomain is closed at most once, only after svr.Run
\* has returned, and exactly once before the process exits on every exit path
\* that follows its creation except a failed server construction, where the
\* process exits non-zero with the domain still open.
C4_ClosedOnNormalExit ==
    /\ domainCloses <= 1
    /\ domainCloses = 1 <=> domain = "closed"
    /\ domainCloses > 0 => runResult # "none"
    /\ exited /\ domain # "none" /\ fatalAt # "newServer"
         => domain = "closed" /\ domainCloses = 1 /\ exitCode = 0
    /\ exited /\ fatalAt = "newServer"
         => domain = "open" /\ domainCloses = 0 /\ exitCode # 0

C4_Witness == exited /\ exitCode = 0 /\ domain = "closed" /\ domainCloses = 1

\* The steps of main that can fail fatally.
FatalSteps ==
    {"privCheck", "parseDdlLease", "parseStatsLease", "setLog", "createStore",
     "createBinlogClient", "bootstrapSession", "newServer"}

\* C5: a fatal pre-serving failure terminates the process at once with a
\* non-zero status: the failing step is the last one entered and was entered
\* once, svr.Run is never called, and exit code 0 is not produced.
C5_FatalExit ==
    /\ fatalAt # "" =>
         /\ fatalAt \in FatalSteps
         /\ exited /\ exitCode # 0
         /\ trace # <<>> /\ trace[Len(trace)] = fatalAt
         /\ Cardinality({i \in 1..Len(trace) : trace[i] = fatalAt}) = 1
         /\ runCalls = 0 /\ svr \in {"none"} /\ cpc = "none" /\ ppc = "none"
    /\ exited /\ exitCode = 0 => fatalAt = ""
    /\ \A l \in logs : l[1] = "fatal" => fatalAt = l[2]

C5_Witness == exited /\ fatalAt = "newServer" /\ domain = "open" /\ exitCode # 0

\* C6: a failed certificate/key load is not fatal: cfg.SSLEnabled becomes
\* false, tlsConfig stays nil, a warning is logged, and main goes on to store
\* creation and, from there, to session bootstrap and server construction.
C6_CertFailureDegrades ==
    certLoad = "failed" =>
        /\ ~cfg[1].SSLEnabled
        /\ tlsConfig = <<>>
        /\ <<"warn", "certLoad">> \in logs /\ <<"warn", "notSecure">> \in logs
        /\ fatalAt # "loadTLS"
        /\ pc # "loadTLS"
        /\ pc = "createStore" /\ exited => fatalAt = "createStore"
        /\ StepAfter("loadTLS") \in {"", "createStore"}

C6_Witness ==
    certLoad = "failed" /\ flags.sslCertPath # "" /\ svr = "running" /\ tlsConfig = <<>>

\* C7: after configuration resolution and before the TLS policy is built,
\* cfg.SSLEnabled is true when any of ssl-ca, ssl-cert, ssl-key is non-empty,
\* and equals the ssl flag when all three are empty.
C7_PathsImplySSL ==
    pc \in {"setLog", "loadTLS"} =>
        LET anyPath == flags.sslCAPath # "" \/ flags.sslCertPath # ""
                       \/ flags.sslKeyPath # ""
        IN  /\ anyPath => cfg[1].SSLEnabled
            /\ ~anyPath => cfg[1].SSLEnabled = flags.sslEnabled

C7_Witness ==
    /\ pc = "loadTLS" /\ ~flags.sslEnabled /\ flags.sslCAPath # ""
    /\ flags.sslCertPath = "" /\ flags.sslKeyPath = "" /\ cfg[1].SSLEnabled

\* C8 (as claimed): in every TLS policy built, client certificates are
\* required and verified if and only if the policy holds a trust pool; when
\* the CA file cannot be read or parsed, a warning is logged and the policy
\* holds no trust pool and requires no client certificate.
C8_ClientAuthIffPool ==
    tlsConfig # <<>> =>
        /\ tlsConfig[1].ClientAuth = "RequireAndVerifyClientCert"
             <=> tlsConfig[1].ClientCAs # "nil"
        /\ caLoad \in {"readFailed", "parseFailed"} =>
             /\ \E l \in logs : l[1] = "warn"
             /\ tlsConfig[1].ClientCAs = "nil"
             /\ tlsConfig[1].ClientAuth = "NoClientCert"

IsBareInt(s) == s # <<>> /\ \A i \in 1..Len(s) : s[i] \in DigitChars

\* C9 (as claimed): parseLease(d) returns the duration of every string d the
\* duration grammar accepts, and parseLease("n") equals parseLease("ns") for
\* every bare non-negative integer n.
C9_ReturnsParsed ==
    leaseRet # <<>> =>
        /\ ParseDuration(leaseArg).ok =>
             /\ ~leaseRet[1].fatal
             /\ leaseRet[1].dur = ParseDuration(leaseArg).dur
        /\ IsBareInt(leaseArg) => leaseRet[1] = parseLease(leaseArg \o <<"s">>)

\* C9 (amended): parseLease(d) returns the duration of every string d the
\* duration grammar accepts as a non-negative duration (an accepted negative
\* one is fatal), and parseLease("n") equals parseLease("ns") for every bare
\* non-negative integer n.
C9_ReturnsParsedNonNegative ==
    leaseRet # <<>> =>
        /\ ParseDuration(leaseArg).ok /\ ParseDuration(leaseArg).dur >= 0 =>
             /\ ~leaseRet[1].fatal
             /\ leaseRet[1].dur = ParseDuration(leaseArg).dur
        /\ ParseDuration(leaseArg).ok /\ ParseDuration(leaseArg).dur < 0 =>
             leaseRet[1].fatal
        /\ IsBareInt(leaseArg) =>
             /\ leaseRet[1] = parseLease(leaseArg \o <<"s">>)
             /\ ~leaseRet[1].fatal
             /\ leaseRet[1].dur = DigitsValue(leaseArg, 0) * Second

C9_Witness ==
    /\ leaseArg = <<"1", "0">> /\ leaseRet # <<>>
    /\ ~leaseRet[1].fatal /\ leaseRet[1].dur = 10 * Second

\* A lease string that denotes a negative duration, as given or with the
\* seconds suffix, or that parses neither way.
LeaseRejected(l) ==
    LET asGiven == ParseDuration(l)
        suffixed == ParseDuration(l \o <<"s">>)
    IN  IF asGiven.ok THEN asGiven.dur < 0
        ELSE ~suffixed.ok \/ suffixed.dur < 0

\* C10: a lease string that is negative or unparsable makes parseLease end
\* the process fatally without returning, for the schema lease and the stats
\* lease alike, so neither lease is ever set to a negative duration.
C10_BadLeaseFatal ==
    /\ schemaLease # <<>> => schemaLease[1] >= 0
    /\ statsLeaseDur # <<>> => statsLeaseDur[1] >= 0
    /\ InTrace("parseDdlLease") /\ LeaseRejected(flags.ddlLease) =>
         /\ exited /\ exitCode # 0 /\ fatalAt = "parseDdlLease"
         /\ schemaLease = <<>> /\ statsLeaseDur = <<>>
    /\ InTrace("parseStatsLease") /\ LeaseRejected(flags.statsLease) =>
         /\ exited /\ exitCode # 0 /\ fatalAt = "parseStatsLease"
         /\ statsLeaseDur = <<>>
    /\ InTrace("parseDdlLease") /\ ~LeaseRejected(flags.ddlLease) =>
         schemaLease # <<>> /\ fatalAt # "parseDdlLease"
    /\ InTrace("parseStatsLease") /\ ~LeaseRejected(flags.statsLease) =>
         statsLeaseDur # <<>> /\ fatalAt # "parseStatsLease"

C10_Witness ==
    /\ exited /\ fatalAt = "parseStatsLease" /\ flags.statsLease = <<"-", "5">>
    /\ schemaLease = <<5 * Second>> /\ statsLeaseDur = <<>>


\* C11: when metrics-interval is zero or metrics-addr is empty, pushMetric
\* starts no goroutine and no push is ever issued.
C11_DisabledNeverPushes ==
    flags.metricsInterval = 0 \/ flags.metricsAddr = "" =>
        /\ ppc = "none" /\ pushCalls = 0 /\ lastPush = "none" /\ lastSleep = <<>>
        /\ <<"info", "startPush">> \notin logs
        /\ pc \in {"run", "inRun", "domainClose", "exit"} => <<"info", "disablePush">> \in logs

C11_Witness ==
    /\ flags.metricsInterval = 0 /\ flags.metricsAddr # ""
    /\ exited /\ exitCode = 0 /\ runCalls = 1 /\ pushCalls = 0 /\ ppc = "none"


\* C12: a failed push does not stop the loop: each iteration issues exactly
\* one push attempt, then one sleep, then the next attempt, whether the
\* attempt succeeded or failed, until the process exits (attempts are followed
\* up to MaxPush); a push leaves the main goroutine, the server, the domain
\* and the exit status untouched.
C12_PushLoopContinues ==
    /\ [][/\ pushCalls' # pushCalls =>
               /\ ppc = "push" /\ ppc' = "sleep" /\ pushCalls' = pushCalls + 1
               /\ lastPush' \in {"ok", "failed"}
               /\ pc' = pc /\ exited' = exited /\ exitCode' = exitCode
               /\ fatalAt' = fatalAt /\ svr' = svr /\ domain' = domain
          /\ ppc = "push" /\ ppc' # ppc => ppc' = "sleep" /\ pushCalls' = pushCalls + 1
          /\ ppc = "sleep" /\ ppc' # ppc => ppc' = "push" /\ pushCalls' = pushCalls
          /\ ppc # "none" => ppc' # "none"]_vars
    /\ \A n \in 0..(MaxPush - 1) :
         (ppc # "none" /\ pushCalls = n) ~> (pushCalls = n + 1 \/ exited)

C12_Witness ==
    /\ pushCalls >= 2 /\ lastPush = "ok" /\ <<"error", "push">> \in logs
    /\ lastSleep # <<>> /\ ~exited /\ fatalAt = ""


\* C13: whatever svr.Run returns, and whether a signal closed the server or
\* Run ended on its own, main then calls domain.Close exactly once and exits
\* with code 0: the returned value changes neither.
C13_RunResultIgnored ==
    runResult # "none" =>
        /\ fatalAt = ""
        /\ <<"error", runResult>> \in logs
        /\ pc \in {"domainClose", "exit"}
        /\ pc = "domainClose" => domainCloses = 0 /\ domain = "open" /\ ~exited
        /\ pc = "exit" => domainCloses = 1 /\ domain = "closed"
        /\ exited => exitCode = 0 /\ pc = "exit"

C13_Witness ==
    /\ exited /\ exitCode = 0 /\ runResult = "err" /\ closeCalls = 0 /\ sigCount = 0
    /\ domainCloses = 1


\* C14: with the version flag set, the process prints the version and exits
\* with code 0 as its first step, whatever the other flags are: no privilege
\* check, lease parsing, TLS loading, store, session bootstrap, server,
\* signal subscription or metrics push takes place.
C14_VersionExitsFirst ==
    flags.version =>
        /\ pc = "flagParse" /\ trace = <<>> /\ fatalAt = ""
        /\ exited => exitCode = 0 /\ logs = {<<"print", "version">>}
        /\ ~exited => logs = {}
        /\ schemaLease = <<>> /\ statsLeaseDur = <<>> /\ cfg = <<>>
        /\ certLoad = "none" /\ tlsConfig = <<>> /\ store = "none" /\ ~binlogClient
        /\ domain = "none" /\ svr = "none" /\ runCalls = 0
        /\ ~subscribed /\ cpc = "none" /\ ppc = "none" /\ pushCalls = 0

C14_Witness ==
    /\ flags.version /\ flags.skipGrantTable /\ flags.ddlLease = <<"-", "5">>
    /\ exited /\ exitCode = 0


\* The bootstrap steps of main in program order.
StepOrder ==
    << "privCheck", "parseDdlLease", "parseStatsLease", "buildConfig", "setLog",
       "loadTLS", "createStore", "createBinlogClient", "bootstrapSession",
       "newServer", "signalNotify", "run" >>

\* The steps a command line calls for: the binlog client only with a socket.
ExpectedSteps(f) ==
    LET Wanted(step) == step # "createBinlogClient" \/ f.binlogSocket # ""
    IN  SelectSeq(StepOrder, Wanted)

\* C15: the bootstrap steps are entered at most once each and in program
\* order (lease parsing, TLS policy, store, binlog client only when the
\* socket path is non-empty, session bootstrap, server construction, signal
\* subscription, svr.Run), and none is entered after a fatal error: the
\* server is never constructed before the store and the TLS policy are
\* resolved, and the binlog client is never set after session bootstrap.
C15_StepsInOrder ==
    /\ Len(trace) <= Len(ExpectedSteps(flags))
    /\ trace = SubSeq(ExpectedSteps(flags), 1, Len(trace))
    /\ fatalAt # "" => trace # <<>> /\ trace[Len(trace)] = fatalAt
    /\ svr # "none" => store = "open" /\ InTrace("loadTLS") /\ domain # "none"
    /\ domain # "none" => store = "open" /\ (binlogClient <=> flags.binlogSocket # "")
    /\ binlogClient => flags.binlogSocket # "" /\ store = "open"
    /\ subscribed => svr # "none"
    /\ runCalls > 0 => subscribed /\ runCalls = 1

C15_Witness ==
    /\ flags.binlogSocket # "" /\ binlogClient /\ pc = "inRun"
    /\ trace = ExpectedSteps(flags)


\* TLS was requested on the command line: the explicit flag or any path.
TLSRequested(f) ==
    f.sslEnabled \/ f.sslCAPath # "" \/ f.sslCertPath # "" \/ f.sslKeyPath # ""

\* C16: when server.NewServer is called (and from then on) the TLS policy
\* argument is non-nil exactly when cfg.SSLEnabled is true, and that is so
\* exactly when TLS was requested and the certificate/key pair loaded; a CA
\* read or parse failure alone never turns TLS off.
C16_PolicyIffEnabled ==
    (pc = "newServer" \/ svr # "none") =>
        /\ (tlsConfig # <<>>) <=> cfg[1].SSLEnabled
        /\ cfg[1].SSLEnabled <=> (TLSRequested(flags) /\ certLoad = "ok")
        /\ caLoad \in {"readFailed", "parseFailed"} =>
               tlsConfig # <<>> /\ cfg[1].SSLEnabled

C16_Witness ==
    /\ svr = "constructed" /\ InTrace("newServer")
    /\ caLoad = "parseFailed" /\ tlsConfig # <<>> /\ cfg[1].SSLEnabled
    /\ ~flags.sslEnabled


\* C17: svr.Close is never invoked after final teardown has begun: every
\* step that calls svr.Close is taken while domain.Close has not yet been
\* called by main.
C17_NoCloseAfterTeardown ==
    [][closeCalls' # closeCalls => domainCloses = 0 /\ pc # "exit"]_vars


\* C18: whenever the pusher goroutine is running, the delay between two
\* consecutive push attempts is strictly positive: for every metrics-interval
\* with a non-empty address either no goroutine is spawned or each
\* time.Sleep of the loop waits a positive duration.
C18_PositiveDelay ==
    ppc # "none" /\ lastSleep # <<>> => lastSleep[1] > 0

====
